---------------------------- MODULE Spec2Model ----------------------------
(***************************************************************************)
(* A model of heredity.py: exact inference of gene and trait distributions *)
(* over a family pedigree by enumeration of every hypothesis.              *)
(*                                                                         *)
(* The program computes in Python floats (IEEE-754 binary64).  TLC's       *)
(* integers are 32 bits wide, so a float is modelled as a 53-bit           *)
(* significand held in limbs of LimbBits bits plus a binary exponent, and  *)
(* every arithmetic operation rounds to nearest, ties to even, as the      *)
(* hardware does.  Exponent range (overflow, subnormals) is not modelled:  *)
(* the values of the bounded pedigrees stay far inside it.                 *)
(***************************************************************************)
EXTENDS Integers, Sequences, FiniteSets, TLC

(***************************************************************************)
(* Natural numbers of any size: little-endian sequences of limbs, without  *)
(* leading zero limbs (zero is the empty sequence).                        *)
(***************************************************************************)
LimbBits == 14
Base == 2^LimbBits
MantBits == 53

Hd(a) == IF a = <<>> THEN 0 ELSE Head(a)
Tl(a) == IF a = <<>> THEN <<>> ELSE Tail(a)

RECURSIVE NNorm(_)
NNorm(a) ==
    IF a = <<>> THEN <<>>
    ELSE IF a[Len(a)] = 0 THEN NNorm(SubSeq(a, 1, Len(a) - 1)) ELSE a

RECURSIVE NFromInt(_)
NFromInt(n) == IF n = 0 THEN <<>> ELSE <<n % Base>> \o NFromInt(n \div Base)

RECURSIVE NAddC(_, _, _)
NAddC(a, b, c) ==
    IF a = <<>> /\ b = <<>> THEN (IF c = 0 THEN <<>> ELSE <<c>>)
    ELSE LET x == Hd(a) + Hd(b) + c
         IN  <<x % Base>> \o NAddC(Tl(a), Tl(b), x \div Base)

NAdd(a, b) == NAddC(a, b, 0)

RECURSIVE NSubB(_, _, _)
NSubB(a, b, c) ==
    IF a = <<>> THEN <<>>
    ELSE LET x == Hd(a) - Hd(b) - c
         IN  IF x < 0 THEN <<x + Base>> \o NSubB(Tl(a), Tl(b), 1)
             ELSE <<x>> \o NSubB(Tl(a), Tl(b), 0)

\* a - b for a >= b
NSub(a, b) == NNorm(NSubB(a, b, 0))

RECURSIVE NCmpAt(_, _, _)
NCmpAt(a, b, i) ==
    IF i = 0 THEN 0
    ELSE IF a[i] < b[i] THEN -1
    ELSE IF a[i] > b[i] THEN 1
    ELSE NCmpAt(a, b, i - 1)

\* -1, 0, 1 as a < b, a = b, a > b
NCmp(a, b) ==
    IF Len(a) < Len(b) THEN -1
    ELSE IF Len(a) > Len(b) THEN 1
    ELSE NCmpAt(a, b, Len(a))

RECURSIVE NMulLimb(_, _, _)
NMulLimb(a, d, c) ==
    IF a = <<>> THEN (IF c = 0 THEN <<>> ELSE <<c>>)
    ELSE LET x == Head(a) * d + c
         IN  <<x % Base>> \o NMulLimb(Tail(a), d, x \div Base)

NShlLimbs(a, k) == IF a = <<>> THEN <<>> ELSE [i \in 1..k |-> 0] \o a

RECURSIVE NMul(_, _)
NMul(a, b) ==
    IF a = <<>> \/ b = <<>> THEN <<>>
    ELSE NAdd(NMulLimb(a, Head(b), 0), NShlLimbs(NMul(a, Tail(b)), 1))

\* a * 2^k
NShl(a, k) == NShlLimbs(NNorm(NMulLimb(a, 2^(k % LimbBits), 0)), k \div LimbBits)

\* a \div 2^k
NShr(a, k) ==
    LET d == k \div LimbBits
        s == k % LimbBits
        n == Len(a) - d
    IN  IF n <= 0 THEN <<>>
        ELSE NNorm([i \in 1..n |->
                 (a[i + d] \div 2^s)
                 + (IF i + d < Len(a) THEN (a[i + d + 1] % 2^s) * 2^(LimbBits - s)
                    ELSE 0)])

RECURSIVE IntBitLen(_)
IntBitLen(n) == IF n = 0 THEN 0 ELSE 1 + IntBitLen(n \div 2)

NBitLen(a) == IF a = <<>> THEN 0 ELSE LimbBits * (Len(a) - 1) + IntBitLen(a[Len(a)])

\* bit i of a, bit 0 the lowest
NBit(a, i) ==
    LET j == i \div LimbBits + 1
    IN  IF j > Len(a) THEN 0 ELSE (a[j] \div 2^(i % LimbBits)) % 2

\* some of the k lowest bits of a is set
NLowBits(a, k) ==
    \E j \in 1..Len(a) :
        \/ j <= k \div LimbBits /\ a[j] # 0
        \/ j = k \div LimbBits + 1 /\ a[j] % 2^(k % LimbBits) # 0

\* the largest digit d2 >= d, equal to d above bit j, with b * d2 <= r
RECURSIVE NDigit(_, _, _, _)
NDigit(r, b, j, d) ==
    IF j < 0 THEN d
    ELSE IF NCmp(NMulLimb(b, d + 2^j, 0), r) <= 0 THEN NDigit(r, b, j - 1, d + 2^j)
    ELSE NDigit(r, b, j - 1, d)

\* long division of a by b # 0, one limb of a at a time from limb i down
RECURSIVE NDivStep(_, _, _, _, _)
NDivStep(a, b, i, q, r) ==
    IF i = 0 THEN [q |-> NNorm(q), r |-> r]
    ELSE LET r2 == IF r = <<>> THEN NFromInt(a[i]) ELSE <<a[i]>> \o r
             d == NDigit(r2, b, LimbBits - 1, 0)
         IN  NDivStep(a, b, i - 1, <<d>> \o q,
                      IF d = 0 THEN r2 ELSE NSub(r2, NMulLimb(b, d, 0)))

\* quotient and remainder of a by b # 0
NDivMod(a, b) == NDivStep(a, b, Len(a), <<>>, <<>>)

(***************************************************************************)
(* Floats: value m * 2^e, m zero or of exactly MantBits bits.              *)
(***************************************************************************)
FZero == [m |-> <<>>, e |-> 0]

\* the float nearest to n * 2^e, ties to even
FRound(n, e) ==
    LET l == NBitLen(n)
    IN  IF l = 0 THEN FZero
        ELSE IF l <= MantBits THEN [m |-> NShl(n, MantBits - l), e |-> e - (MantBits - l)]
        ELSE LET s == l - MantBits
                 q == NShr(n, s)
                 up == NBit(n, s - 1) = 1 /\ (NLowBits(n, s - 1) \/ NBit(q, 0) = 1)
                 q1 == IF up THEN NAdd(q, <<1>>) ELSE q
             IN  IF NBitLen(q1) > MantBits THEN [m |-> NShr(q1, 1), e |-> e + s + 1]
                 ELSE [m |-> q1, e |-> e + s]

\* an int converted to float
FInt(n) == FRound(NFromInt(n), 0)

(***************************************************************************)
(* Products and sums, the operations of the inner loop, on limbs held in   *)
(* tuples of fixed length.                                                 *)
(***************************************************************************)
\* The float nearest to n * 2^e, ties to even, for the number n of MantBits bits or
\* one more whose limbs are w[1..5] with the sb lowest bits of w[1] cut off
\* (1 <= sb < LimbBits); lower is TRUE when nonzero limbs lie below w[1].
Round4(w, sb, lower, e) ==
    LET keep == 2^sb
        lift == 2^(LimbBits - sb)
        q1 == (w[1] \div keep) + ((w[2] % keep) * lift)
        q2 == (w[2] \div keep) + ((w[3] % keep) * lift)
        q3 == (w[3] \div keep) + ((w[4] % keep) * lift)
        q4 == (w[4] \div keep) + ((w[5] % keep) * lift)
        half == (w[1] \div 2^(sb - 1)) % 2 = 1
        sticky == lower \/ w[1] % 2^(sb - 1) # 0
        u1 == q1 + (IF half /\ (sticky \/ q1 % 2 = 1) THEN 1 ELSE 0)
        u2 == q2 + (u1 \div Base)
        u3 == q3 + (u2 \div Base)
        u4 == q4 + (u3 \div Base)
        top == 2^(MantBits - 3 * LimbBits)
    IN  IF u4 >= top THEN [m |-> <<0, 0, 0, top \div 2>>, e |-> e + 1]
        ELSE [m |-> <<u1 % Base, u2 % Base, u3 % Base, u4>>, e |-> e]

\* x * y: the exact product of the significands in eight limbs, then rounded
FMul(x, y) ==
    IF x.m = <<>> \/ y.m = <<>> THEN FZero
    ELSE LET a == x.m
             b == y.m
             t1 == a[1] * b[1]
             t2 == a[1] * b[2] + a[2] * b[1] + (t1 \div Base)
             t3 == a[1] * b[3] + a[2] * b[2] + a[3] * b[1] + (t2 \div Base)
             t4 == a[1] * b[4] + a[2] * b[3] + a[3] * b[2] + a[4] * b[1] + (t3 \div Base)
             t5 == a[2] * b[4] + a[3] * b[3] + a[4] * b[2] + (t4 \div Base)
             t6 == a[3] * b[4] + a[4] * b[3] + (t5 \div Base)
             t7 == a[4] * b[4] + (t6 \div Base)
             t8 == t7 \div Base
             \* the product has 2 * MantBits bits when bit 2 * MantBits - 1 is set
             sb == IF t8 >= 2^(2 * MantBits - 1 - 7 * LimbBits)
                   THEN MantBits - 3 * LimbBits
                   ELSE MantBits - 3 * LimbBits - 1
         IN  Round4(<<t4 % Base, t5 % Base, t6 % Base, t7 % Base, t8>>, sb,
                    t1 % Base # 0 \/ t2 % Base # 0 \/ t3 % Base # 0,
                    x.e + y.e + 3 * LimbBits + sb)

\* the significand m with three more bits below it
Times8(m) ==
    LET l1 == m[1] * 8
        l2 == m[2] * 8 + (l1 \div Base)
        l3 == m[3] * 8 + (l2 \div Base)
        l4 == m[4] * 8 + (l3 \div Base)
    IN  <<l1 % Base, l2 % Base, l3 % Base, l4>>

\* the limbs l shifted down by d bits; what falls off the end is kept as a one
\* in the last bit (the sticky bit)
ShiftedDown(l, d) ==
    LET ld == d \div LimbBits
        keep == 2^(d % LimbBits)
        lift == 2^(LimbBits - (d % LimbBits))
        lost == \/ \E j \in 1..4 : j <= ld /\ l[j] # 0
                \/ l[ld + 1] % keep # 0
        r(i) == (l[i + ld] \div keep) + ((l[i + ld + 1] % keep) * lift)
    IN  <<IF lost /\ r(1) % 2 = 0 THEN r(1) + 1 ELSE r(1), r(2), r(3), r(4)>>

\* h + r limb by limb, rounded, for limbs at the exponent e - 3
AddAligned(h, r, e) ==
    LET s1 == h[1] + r[1]
        s2 == h[2] + r[2] + (s1 \div Base)
        s3 == h[3] + r[3] + (s2 \div Base)
        s4 == h[4] + r[4] + (s3 \div Base)
    IN  Round4(<<s1 % Base, s2 % Base, s3 % Base, s4 % Base, s4 \div Base>>,
               3 + (s4 \div Base), FALSE, e + (s4 \div Base))

\* hi + lo for hi.e >= lo.e, both nonzero: lo is shifted down to hi's exponent
FAddOrd(hi, lo) ==
    IF hi.e - lo.e > MantBits + 3 THEN hi
    ELSE AddAligned(Times8(hi.m),
                    ShiftedDown(Times8(lo.m) \o <<0, 0, 0, 0, 0>>, hi.e - lo.e), hi.e)

FAdd(x, y) ==
    IF x.m = <<>> THEN y
    ELSE IF y.m = <<>> THEN x
    ELSE IF x.e >= y.e THEN FAddOrd(x, y)
    ELSE FAddOrd(y, x)

\* x - y for x >= y
FSub(x, y) ==
    IF y.m = <<>> THEN x
    ELSE LET e == IF x.e < y.e THEN x.e ELSE y.e
         IN  FRound(NSub(NShl(x.m, x.e - e), NShl(y.m, y.e - e)), e)

\* x / y for y # 0: the quotient to MantBits + 3 bits, a sticky bit below it
FDiv(x, y) ==
    IF x.m = <<>> THEN FZero
    ELSE LET k == MantBits + 3
             d == NDivMod(NShl(x.m, k), y.m)
             n == NAdd(NShl(d.q, 1), IF d.r = <<>> THEN <<>> ELSE <<1>>)
         IN  FRound(n, x.e - y.e - k - 1)

\* -1, 0, 1 as x < y, x = y, x > y
FCmp(x, y) ==
    IF x.m = <<>> THEN (IF y.m = <<>> THEN 0 ELSE -1)
    ELSE IF y.m = <<>> THEN 1
    ELSE IF x.e < y.e THEN -1
    ELSE IF x.e > y.e THEN 1
    ELSE NCmp(x.m, y.m)

\* a decimal literal n/d (0.01 is Dec(1, 100)): the float nearest to it
Dec(n, d) == FDiv(FInt(n), FInt(d))

FOne == FInt(1)

\* sum(values) of Python before 3.12: the int 0, then each value added in turn
RECURSIVE FSumFrom(_, _, _)
FSumFrom(values, i, acc) ==
    IF i > Len(values) THEN acc ELSE FSumFrom(values, i + 1, FAdd(acc, values[i]))

FSum(values) == FSumFrom(values, 1, FZero)

(***************************************************************************)
(* Bounds of the model.                                                    *)
(***************************************************************************)
MaxPeople == 3
MaxUpdWork == 4

(***************************************************************************)
(* The program's state.  A person is named by the number of its row in the *)
(* CSV file, which is also its place in the dicts `people` and             *)
(* `probabilities`; the parent 0 is None.                                  *)
(***************************************************************************)
VARIABLES
    PROBS,          \* the module's dict PROBS
    people,         \* load_data's result: row -> [mother, father, trait]
    order,          \* the iteration order of the set `names`
    probabilities,  \* row -> [gene: count -> float, trait: BOOLEAN -> float]
    pc,             \* where main stands
    it, io, i2,     \* the places of have_trait, one_gene, two_genes in their powersets
    calls,          \* the calls of update and normalize made so far, in order
    total,          \* what `total += p` after each joint_probability would hold
    args,           \* the arguments of a direct call of joint_probability
    result          \* what that call returned

vars == <<PROBS, people, order, probabilities, pc, it, io, i2, calls, total, args, result>>

Names == 1..MaxPeople
People == 1..Len(people)

\* the dict of lines 5-37 with an unconditional gene distribution summing to 0.99
PROBS_gene_short ==
    [gene |-> (2 :> Dec(1, 100) @@ 1 :> Dec(3, 100) @@ 0 :> Dec(95, 100)),
     trait |-> (2 :> (TRUE :> Dec(65, 100) @@ FALSE :> Dec(35, 100))
             @@ 1 :> (TRUE :> Dec(56, 100) @@ FALSE :> Dec(44, 100))
             @@ 0 :> (TRUE :> Dec(1, 100) @@ FALSE :> Dec(99, 100))),
     mutation |-> Dec(1, 100)]

\* the dict that lines 5-37 bind to PROBS
PROBS_as_written ==
    [gene |-> (2 :> Dec(1, 100) @@ 1 :> Dec(3, 100) @@ 0 :> Dec(96, 100)),
     trait |-> (2 :> (TRUE :> Dec(65, 100) @@ FALSE :> Dec(35, 100))
             @@ 1 :> (TRUE :> Dec(56, 100) @@ FALSE :> Dec(44, 100))
             @@ 0 :> (TRUE :> Dec(1, 100) @@ FALSE :> Dec(99, 100))),
     mutation |-> Dec(1, 100)]

\* the r-element subsets of the list s, in the order of itertools.combinations
RECURSIVE combinations(_, _)
combinations(s, r) ==
    IF r = 0 THEN <<{}>>
    ELSE IF Len(s) < r THEN <<>>
    ELSE LET with == combinations(Tail(s), r - 1)
         IN  [k \in 1..Len(with) |-> {Head(s)} \cup with[k]] \o combinations(Tail(s), r)

RECURSIVE chain(_, _, _)
chain(s, r, last) ==
    IF r > last THEN <<>> ELSE combinations(s, r) \o chain(s, r + 1, last)

\* the list of all subsets of the list s
\* powerset that stops before the subset of full size
powerset_proper(s) == chain(s, 0, Len(s) - 1)

powerset(s) == chain(s, 0, Len(s))

\* list(s) for a set s of names: the members of s in the set iteration order
RECURSIVE Restrict(_, _)
Restrict(ord, s) ==
    IF ord = <<>> THEN <<>>
    ELSE IF Head(ord) \in s THEN <<Head(ord)>> \o Restrict(Tail(ord), s)
    ELSE Restrict(Tail(ord), s)

\* the pass probabilities of lines 135-139
parent == (0 :> Dec(1, 100) @@ 1 :> Dec(50, 100) @@ 2 :> Dec(99, 100))

\* a table entry whose value for one copy counts only the mother passing the gene
TableEntryOneCross(pm, pf) ==
    (0 :> FMul(FSub(FOne, pm), FSub(FOne, pf)))
    @@ (1 :> FMul(pm, FSub(FOne, pf)))
    @@ (2 :> FMul(pm, pf))

\* entry of lines 145-151 for the pass probabilities pm = parent[mg], pf = parent[fg]
TableEntry(pm, pf) ==
    (0 :> FMul(FSub(FOne, pm), FSub(FOne, pf)))
    @@ (1 :> FAdd(FMul(pm, FSub(FOne, pf)), FMul(FSub(FOne, pm), pf)))
    @@ (2 :> FMul(pm, pf))

prob_table == [mg \in 0..2, fg \in 0..2 |-> TableEntry(parent[mg], parent[fg])]

\* Copies giving one copy to a parent listed in two_genes and two copies to
\* a parent listed in one_gene
CopiesSwapped(name, one_gene, two_genes) ==
    IF name \in one_gene THEN 2
    ELSE IF name \in two_genes THEN 1
    ELSE 0

\* Copies testing two_genes before one_gene
CopiesTwoFirst(name, one_gene, two_genes) ==
    IF name \in two_genes THEN 2
    ELSE IF name \in one_gene THEN 1
    ELSE 0

\* a parent's number of copies under the hypothesis (lines 209-214, 217-222)
Copies(name, one_gene, two_genes) ==
    IF name \in one_gene THEN 1
    ELSE IF name \in two_genes THEN 2
    ELSE 0

\* p = pt * pg (line 248)
PersonProduct(f) == FMul(f[1], f[2])

\* <<pt, pg>> of one person of the loop of joint_probability
PersonFactors(table, value, person, one_gene, two_genes, have_trait) ==
        IF value.mother = 0 /\ value.father = 0
        THEN IF person \in have_trait
             THEN IF person \in one_gene THEN <<PROBS.trait[1][TRUE], PROBS.gene[1]>>
                  ELSE IF person \in two_genes THEN <<PROBS.trait[2][TRUE], PROBS.gene[2]>>
                  ELSE <<PROBS.trait[0][TRUE], PROBS.gene[0]>>
             ELSE IF person \in one_gene THEN <<PROBS.trait[1][FALSE], PROBS.gene[1]>>
                  ELSE IF person \in two_genes THEN <<PROBS.trait[2][FALSE], PROBS.gene[2]>>
                  ELSE <<PROBS.trait[0][FALSE], PROBS.gene[0]>>
        ELSE LET mg == Copies(value.mother, one_gene, two_genes)
                 fg == Copies(value.father, one_gene, two_genes)
             IN  IF person \in have_trait
                 THEN IF person \in one_gene THEN <<PROBS.trait[1][TRUE], table[mg, fg][1]>>
                      ELSE IF person \in two_genes THEN <<PROBS.trait[2][TRUE], table[mg, fg][2]>>
                      ELSE <<PROBS.trait[0][TRUE], table[mg, fg][0]>>
                 ELSE IF person \in one_gene THEN <<PROBS.trait[1][FALSE], table[mg, fg][1]>>
                      ELSE IF person \in two_genes THEN <<PROBS.trait[2][FALSE], table[mg, fg][2]>>
                      ELSE <<PROBS.trait[0][FALSE], table[mg, fg][0]>>

\* the loop of joint_probability from row `person` on, joint_p the product so far
\* the loop of joint_probability from row person on
RECURSIVE JointLoop(_, _, _, _, _, _, _)
JointLoop(table, ppl, person, joint_p, one_gene, two_genes, have_trait) ==
    IF person > Len(ppl) THEN joint_p
    ELSE JointLoop(table, ppl, person + 1,
                   FMul(joint_p, PersonProduct(PersonFactors(table, ppl[person], person,
                                                              one_gene, two_genes, have_trait))),
                   one_gene, two_genes, have_trait)

\* the locals of joint_probability when it returns
JointFrame(table, ppl, one_gene, two_genes, have_trait) ==
    [kind |-> "value",
     p |-> JointLoop(table, ppl, 1, FOne, one_gene, two_genes, have_trait),
     table |-> table]

joint_probability(ppl, one_gene, two_genes, have_trait) ==
    JointFrame(prob_table, ppl, one_gene, two_genes, have_trait).p

\* += p on the trait bucket t and on the gene bucket g, but a person with
\* two copies is filed under one copy
AddOneCopy(entry, t, g, p) ==
    [gene |-> [entry.gene EXCEPT ![IF g = 2 THEN 1 ELSE g] = FAdd(@, p)],
     trait |-> [entry.trait EXCEPT ![t] = FAdd(@, p)]]

\* the two += p of one branch of update: trait bucket t, gene bucket g
Add(entry, t, g, p) ==
    [gene |-> [entry.gene EXCEPT ![g] = FAdd(@, p)],
     trait |-> [entry.trait EXCEPT ![t] = FAdd(@, p)]]

\* one person's tables after update adds p to them
UpdatePerson(entry, person, one_gene, two_genes, have_trait, p) ==
    IF person \in have_trait
    THEN IF person \in one_gene THEN Add(entry, TRUE, 1, p)
         ELSE IF person \in two_genes THEN Add(entry, TRUE, 2, p)
         ELSE Add(entry, TRUE, 0, p)
    ELSE IF person \in one_gene THEN Add(entry, FALSE, 1, p)
         ELSE IF person \in two_genes THEN Add(entry, FALSE, 2, p)
         ELSE Add(entry, FALSE, 0, p)

update(probs, one_gene, two_genes, have_trait, p) ==
    [person \in DOMAIN probs |->
        UpdatePerson(probs[person], person, one_gene, two_genes, have_trait, p)]

\* the values of a person's dicts in insertion order: gene 2, 1, 0; trait True, False
GeneValues(entry) == <<entry.gene[2], entry.gene[1], entry.gene[0]>>
TraitValues(entry) == <<entry.trait[TRUE], entry.trait[FALSE]>>

\* NormalizePerson that computes the scales and stores nothing
NormalizePersonUnscaled(entry) == entry

\* one person's tables after the body of normalize's loop
NormalizePerson(entry) ==
    LET scale_gene == FDiv(FOne, FSum(GeneValues(entry)))
        scale_trait == FDiv(FOne, FSum(TraitValues(entry)))
    IN  [gene |-> [value \in DOMAIN entry.gene |-> FMul(entry.gene[value], scale_gene)],
         trait |-> [value \in DOMAIN entry.trait |-> FMul(entry.trait[value], scale_trait)]]

\* 1 / sum(...) raises ZeroDivisionError for this person
DividesByZero(entry) ==
    FSum(GeneValues(entry)) = FZero \/ FSum(TraitValues(entry)) = FZero

\* the rows normalize leaves scaled: all, or those before the first that raises
NormalizedRows(probs) ==
    {person \in DOMAIN probs : \A q \in DOMAIN probs : q <= person => ~DividesByZero(probs[q])}

normalize(probs) ==
    [person \in DOMAIN probs |->
        IF person \in NormalizedRows(probs) THEN NormalizePerson(probs[person])
        ELSE probs[person]]

\* fails_evidence that lets every candidate through
fails_evidence_never(ppl, have_trait) == FALSE

\* fails_evidence that also compares the people whose trait is unknown
fails_evidence_unknown_too(ppl, have_trait) ==
    \E person \in 1..Len(ppl) :
        ppl[person].trait # (IF person \in have_trait THEN "True" ELSE "False")

\* main's test of a candidate have_trait against the known traits
fails_evidence(ppl, have_trait) ==
    \E person \in 1..Len(ppl) :
        /\ ppl[person].trait # "None"
        /\ ppl[person].trait # (IF person \in have_trait THEN "True" ELSE "False")

(***************************************************************************)
(* The inputs: pedigrees as load_data returns them.  mother and father are *)
(* both blank or both names of the file; a pedigree has no cycle.          *)
(***************************************************************************)
Evidence == {"None", "True", "False"}

ParentChoices(n) == {<<0, 0>>} \cup {pr \in (1..n) \X (1..n) : pr[1] # pr[2]}

RECURSIVE Ancestors(_, _, _)
Ancestors(sh, s, k) ==
    IF k = 0 THEN s
    ELSE Ancestors(sh, s \cup UNION {{sh[c][1], sh[c][2]} \ {0} : c \in s}, k - 1)

Acyclic(sh) ==
    \A c \in DOMAIN sh : c \notin Ancestors(sh, {sh[c][1], sh[c][2]} \ {0}, Len(sh))

Shapes(n) == {sh \in [1..n -> ParentChoices(n)] : Acyclic(sh)}

PedigreesOf(n, evidence) ==
    {[c \in 1..n |-> [mother |-> sh[c][1], father |-> sh[c][2], trait |-> ev[c]]] :
        sh \in Shapes(n), ev \in [1..n -> evidence]}

Pedigrees == UNION {PedigreesOf(n, Evidence) : n \in 0..MaxPeople}

Orders(n) == {s \in [1..n -> 1..n] : \A a, b \in 1..n : s[a] = s[b] => a = b}

\* main's tables before the loops
ZeroTables(ppl) ==
    [person \in 1..Len(ppl) |->
        [gene |-> (2 :> FZero @@ 1 :> FZero @@ 0 :> FZero),
         trait |-> (TRUE :> FZero @@ FALSE :> FZero)]]

NoArgs == [one_gene |-> {}, two_genes |-> {}, have_trait |-> {}]
NoResult == [kind |-> "none", p |-> FZero, table |-> <<>>]

(***************************************************************************)
(* main: the three nested loops, then normalize.                           *)
(***************************************************************************)
TraitSets == powerset(order)
OneGeneSets == powerset(order)
TwoGeneSets(one_gene) == powerset(Restrict(order, People \ one_gene))

Init ==
    /\ PROBS = PROBS_as_written
    /\ people \in Pedigrees
    /\ order \in Orders(Len(people))
    /\ probabilities = ZeroTables(people)
    /\ pc = "trait"
    /\ it = 1 /\ io = 1 /\ i2 = 1
    /\ calls = <<>>
    /\ total = FZero
    /\ args = NoArgs
    /\ result = NoResult

\* the for statement of have_trait moves on, or main leaves it for normalize
NextHaveTrait ==
    IF it < Len(TraitSets) THEN it' = it + 1 /\ pc' = "trait"
    ELSE it' = it /\ pc' = "normalize"

\* lines 65-74: one candidate have_trait is tested against the evidence
TestEvidence ==
    /\ pc = "trait"
    /\ IF fails_evidence(people, TraitSets[it])
       THEN NextHaveTrait /\ UNCHANGED <<io, i2>>
       ELSE pc' = "gene" /\ io' = 1 /\ i2' = 1 /\ it' = it
    /\ UNCHANGED <<PROBS, people, order, probabilities, calls, total, args, result>>

\* lines 81-82 for the value p that joint_probability returned
Record(one_gene, two_genes, have_trait, p) ==
    /\ probabilities' = update(probabilities, one_gene, two_genes, have_trait, p)
    /\ calls' = Append(calls, [op |-> "update", one_gene |-> one_gene,
                               two_genes |-> two_genes, have_trait |-> have_trait,
                               p |-> p])
    /\ total' = FAdd(total, p)

\* the innermost hypothesis of have_trait and one_gene for the index i2
Try(have_trait, one_gene, twos) ==
    /\ Record(one_gene, twos[i2], have_trait,
              joint_probability(people, one_gene, twos[i2], have_trait))
    /\ IF i2 < Len(twos) THEN i2' = i2 + 1 /\ UNCHANGED <<io, it, pc>>
       ELSE IF io < Len(OneGeneSets) THEN io' = io + 1 /\ i2' = 1 /\ UNCHANGED <<it, pc>>
       ELSE NextHaveTrait /\ UNCHANGED <<io, i2>>

\* lines 77-82: one pass of the innermost loop
Hypothesis ==
    /\ pc = "gene"
    /\ Try(TraitSets[it], OneGeneSets[io], TwoGeneSets(OneGeneSets[io]))
    /\ UNCHANGED <<PROBS, people, order, args, result>>

\* line 85
Normalize ==
    /\ pc = "normalize"
    /\ probabilities' = normalize(probabilities)
    /\ calls' = Append(calls, [op |-> "normalize", one_gene |-> {}, two_genes |-> {},
                               have_trait |-> {}, p |-> FZero])
    /\ pc' = IF \E person \in People : DividesByZero(probabilities[person])
             THEN "ZeroDivisionError" ELSE "done"
    /\ UNCHANGED <<PROBS, people, order, it, io, i2, total, args, result>>

Next == TestEvidence \/ Hypothesis \/ Normalize

Spec == Init /\ [][Next]_vars

(***************************************************************************)
(* joint_probability called on its own, on any pedigree and any three sets *)
(* of names, well formed or not, under either mutation rate.               *)
(***************************************************************************)
InitJoint ==
    /\ PROBS \in {PROBS_as_written, [PROBS_as_written EXCEPT !.mutation = FZero]}
    /\ people \in UNION {PedigreesOf(n, {"None"}) : n \in 0..MaxPeople}
    /\ order = [k \in 1..Len(people) |-> k]
    /\ probabilities = ZeroTables(people)
    /\ pc = "call"
    /\ it = 1 /\ io = 1 /\ i2 = 1
    /\ calls = <<>>
    /\ total = FZero
    /\ args \in [one_gene : SUBSET Names, two_genes : SUBSET Names, have_trait : SUBSET Names]
    /\ result = NoResult

\* lines 158-251: the call returns; no statement of the function raises
CallJoint ==
    /\ pc = "call"
    /\ pc' = "returned"
    /\ result' = JointFrame(prob_table, people, args.one_gene, args.two_genes,
                             args.have_trait)
    /\ UNCHANGED <<PROBS, people, order, probabilities, it, io, i2, calls, total, args>>

NextJoint == CallJoint

SpecJoint == InitJoint /\ [][NextJoint]_vars

(***************************************************************************)
(* update called any number of times on tables that start at zero, with    *)
(* any sets of the people and with joint probabilities of a lone person.   *)
(***************************************************************************)
Lone == <<[mother |-> 0, father |-> 0, trait |-> "None"]>>
PVals == {joint_probability(Lone, one_gene, {}, {1}) : one_gene \in {{}, {1}}}

InitUpdate ==
    /\ PROBS = PROBS_as_written
    /\ people \in {ppl \in UNION {PedigreesOf(n, {"None"}) : n \in 1..MaxPeople} :
                      \A c \in 1..Len(ppl) : ppl[c].mother = 0}
    /\ order = [k \in 1..Len(people) |-> k]
    /\ probabilities = ZeroTables(people)
    /\ pc = "update"
    /\ it = 1 /\ io = 1 /\ i2 = 1
    /\ calls = <<>>
    /\ total = FZero
    /\ args = NoArgs
    /\ result = NoResult

\* lines 254-288
CallUpdate ==
    /\ pc = "update"
    /\ Len(calls) + Len(people) < MaxUpdWork
    /\ \E one_gene \in SUBSET People, two_genes \in SUBSET People,
          have_trait \in SUBSET People, p \in PVals :
            Record(one_gene, two_genes, have_trait, p)
    /\ UNCHANGED <<PROBS, people, order, pc, it, io, i2, args, result>>

NextUpdate == CallUpdate

SpecUpdate == InitUpdate /\ [][NextUpdate]_vars

(***************************************************************************)
(* Comparison of floats up to rounding                                     *)
(***************************************************************************)
Tol == Dec(1, 1000000000)

FAbsDiff(x, y) == IF FCmp(x, y) >= 0 THEN FSub(x, y) ELSE FSub(y, x)

\* |x - y| <= 1e-9
Close(x, y) == FCmp(FAbsDiff(x, y), Tol) <= 0

\* |x - y| <= 1e-9 * max(x, y)
CloseRel(x, y) ==
    FCmp(FAbsDiff(x, y), FMul(Tol, IF FCmp(x, y) >= 0 THEN x ELSE y)) <= 0

\* x1 * y1 = x2 * y2 as real numbers
SameProduct(x1, y1, x2, y2) ==
    LET z1 == x1.m = <<>> \/ y1.m = <<>>
        z2 == x2.m = <<>> \/ y2.m = <<>>
    IN  IF z1 \/ z2 THEN z1 /\ z2
        ELSE LET e1 == x1.e + y1.e
                 e2 == x2.e + y2.e
                 lo == IF e1 < e2 THEN e1 ELSE e2
             IN  NShl(NMul(x1.m, y1.m), e1 - lo) = NShl(NMul(x2.m, y2.m), e2 - lo)

(***************************************************************************)
(* Claims about joint_probability and the child gene table                 *)
(***************************************************************************)
Returned == pc = "returned"

WellFormed(a) ==
    /\ a.one_gene \subseteq People
    /\ a.two_genes \subseteq People
    /\ a.have_trait \subseteq People
    /\ a.one_gene \cap a.two_genes = {}

GeneCount(person, a) ==
    IF person \in a.one_gene THEN 1 ELSE IF person \in a.two_genes THEN 2 ELSE 0

GeneFactor(person, a) ==
    IF people[person].mother = 0 /\ people[person].father = 0
    THEN PROBS.gene[GeneCount(person, a)]
    ELSE prob_table[GeneCount(people[person].mother, a),
                    GeneCount(people[person].father, a)][GeneCount(person, a)]

TraitFactor(person, a) == PROBS.trait[GeneCount(person, a)][(person \in a.have_trait)]

RECURSIVE ProductFrom(_, _, _)
ProductFrom(i, acc, a) ==
    IF i > Len(people) THEN acc
    ELSE ProductFrom(i + 1, FMul(acc, FMul(GeneFactor(i, a), TraitFactor(i, a))), a)

\* C1: for a well-formed hypothesis on an acyclic pedigree the value returned
\* by joint_probability is the product, over the people in row order, of the
\* gene factor (unconditional for a person without listed parents, the child
\* gene table's entry for the parents' hypothesised counts otherwise) times
\* the trait factor, and it lies in [0, 1].
C1_JointIsProduct ==
    (Returned /\ WellFormed(args)) =>
        /\ result.kind = "value"
        /\ result.p = ProductFrom(1, FOne, args)
        /\ FCmp(result.p, FOne) <= 0

C1_Witness ==
    /\ Returned /\ WellFormed(args)
    /\ Len(people) = 3
    /\ \E c \in People : /\ people[c].mother # 0
                         /\ people[c].mother \in args.two_genes
                         /\ people[c].father \in args.one_gene
                         /\ c \in args.have_trait
                         /\ c \notin args.one_gene \cup args.two_genes

passProb(g, mu) ==
    LET half == CASE g = 0 -> FZero [] g = 1 -> Dec(1, 2) [] g = 2 -> FOne
    IN  FAdd(FMul(half, FSub(FOne, mu)), FMul(FSub(FOne, half), mu))

TableFrom(mu) ==
    [mg \in 0..2, fg \in 0..2 |->
        LET pm == passProb(mg, mu)
            pf == passProb(fg, mu)
        IN  (0 :> FMul(FSub(FOne, pm), FSub(FOne, pf)))
            @@ (1 :> FAdd(FMul(pm, FSub(FOne, pf)), FMul(FSub(FOne, pm), pf)))
            @@ (2 :> FMul(pm, pf))]

TableAtOnePercent == TableFrom(Dec(1, 100))

\* C5: for each of the 9 pairs of parent counts the table used by
\* joint_probability has entry 0 = (1-pass(mg))(1-pass(fg)), entry 1 =
\* pass(mg)(1-pass(fg)) + (1-pass(mg))pass(fg) and entry 2 = pass(mg)pass(fg),
\* pass being the pass probability at the mutation rate 0.01, and the three
\* entries of each pair sum to 1.
C5_TableEntries ==
    Returned =>
        /\ result.table = TableAtOnePercent
        /\ \A mg \in 0..2, fg \in 0..2 :
              FSum(<<result.table[mg, fg][0], result.table[mg, fg][1],
                     result.table[mg, fg][2]>>) = FOne

C5_Witness ==
    /\ Returned
    /\ Len(people) = 3
    /\ \E c \in People : people[c].mother # 0
    /\ PROBS.mutation = Dec(1, 100)

\* C6 (as stated): the table used by joint_probability is the one derived from
\* the configured mutation rate, so that under a mutation rate of 0 two
\* parents without the gene give a child without the gene with probability 1.
C6_TableFollowsMutation ==
    Returned =>
        /\ result.table = TableFrom(PROBS.mutation)
        /\ PROBS.mutation = FZero => result.table[0, 0][0] = FOne

\* C7 (as stated): a hypothesis naming somebody outside the pedigree, or
\* putting a name in both one_gene and two_genes, fails with InvalidHypothesis.
C7_MalformedFails ==
    (Returned /\ ~WellFormed(args)) => result.kind = "InvalidHypothesis"

\* C7 (amended): joint_probability checks nothing: on a malformed hypothesis
\* it still returns a probability, namely that of the hypothesis with the
\* unknown names dropped and every name listed in both sets kept in one_gene.
C7_MalformedIsRepaired ==
    (Returned /\ ~WellFormed(args)) =>
        /\ result.kind = "value"
        /\ result.p = joint_probability(people, args.one_gene \cap People,
                                        (args.two_genes \ args.one_gene) \cap People,
                                        args.have_trait \cap People)

C7_Witness ==
    /\ Returned
    /\ Len(people) = 3
    /\ \E c \in People : /\ people[c].mother # 0
                         /\ people[c].mother \in args.one_gene \cap args.two_genes
    /\ FCmp(result.p, FZero) > 0

(***************************************************************************)
(* Claims about the whole run of main                                      *)
(***************************************************************************)
Known(person) == people[person].trait # "None"

\* have_trait agrees with every known trait
Consistent(have_trait) ==
    \A person \in People :
        /\ people[person].trait = "True" => person \in have_trait
        /\ people[person].trait = "False" => person \notin have_trait

Updates == SelectSeq(calls, LAMBDA c : c.op = "update")

HasChild == \E c \in People : people[c].mother # 0

GeneSum(person) == FSum(GeneValues(probabilities[person]))
TraitSum(person) == FSum(TraitValues(probabilities[person]))

\* the ratios between the buckets of one distribution, up to rounding
RatiosClose(before, after, keys) ==
    \A a \in keys, b \in keys :
        CloseRel(FMul(after[a], before[b]), FMul(after[b], before[a]))

\* the ratios between the buckets of one distribution, as real numbers
RatiosSame(before, after, keys) ==
    \A a \in keys, b \in keys : SameProduct(after[a], before[b], after[b], before[a])

\* C2 (as stated): when main's run ends, each person's three gene values sum
\* to 1 and two trait values sum to 1, and normalize has kept the ratios
\* between the buckets of each distribution.
C2_SumsAreOne ==
    [][(pc = "normalize" /\ pc' = "done") =>
        \A person \in People :
            /\ FSum(GeneValues(probabilities'[person])) = FOne
            /\ FSum(TraitValues(probabilities'[person])) = FOne
            /\ RatiosSame(probabilities[person].gene, probabilities'[person].gene, 0..2)
            /\ RatiosSame(probabilities[person].trait, probabilities'[person].trait,
                          BOOLEAN)]_vars

\* C2 (amended): when main's run ends, each person's three gene values and
\* two trait values sum to 1 within 1e-9, and normalize has kept the ratios
\* between the buckets of each distribution within a relative 1e-9.
C2_SumsNearOne ==
    [][(pc = "normalize" /\ pc' = "done") =>
        \A person \in People :
            /\ Close(FSum(GeneValues(probabilities'[person])), FOne)
            /\ Close(FSum(TraitValues(probabilities'[person])), FOne)
            /\ RatiosClose(probabilities[person].gene, probabilities'[person].gene, 0..2)
            /\ RatiosClose(probabilities[person].trait, probabilities'[person].trait,
                           BOOLEAN)]_vars

C2_Witness ==
    /\ pc = "done"
    /\ Len(people) = 3 /\ HasChild
    /\ \E person \in People : Known(person)
    /\ \E person \in People : GeneSum(person) # FOne

\* C3 (as stated): a candidate have_trait reaches update exactly when it
\* agrees with every known trait, and when the run ends a person with known
\* trait e has trait probability 1 on e and 0 on the other value.
C3_EvidenceExact ==
    /\ (calls # <<>> /\ calls[Len(calls)].op = "update")
          => Consistent(calls[Len(calls)].have_trait)
    /\ pc = "normalize"
          => {Updates[k].have_trait : k \in 1..Len(Updates)}
                = {s \in SUBSET People : Consistent(s)}
    /\ pc = "done" =>
          \A person \in People : Known(person) =>
              LET e == people[person].trait = "True"
              IN  /\ probabilities[person].trait[e] = FOne
                  /\ probabilities[person].trait[~e] = FZero

\* C3 (amended): a candidate have_trait reaches update exactly when it
\* agrees with every known trait, and when the run ends a person with known
\* trait e has trait probability within 1e-9 of 1 on e and exactly 0 on the
\* other value; for a pedigree of one person the probability on e is exactly 1.
C3_EvidenceNear ==
    /\ (calls # <<>> /\ calls[Len(calls)].op = "update")
          => Consistent(calls[Len(calls)].have_trait)
    /\ pc = "normalize"
          => {Updates[k].have_trait : k \in 1..Len(Updates)}
                = {s \in SUBSET People : Consistent(s)}
    /\ pc = "done" =>
          \A person \in People : Known(person) =>
              LET e == people[person].trait = "True"
              IN  /\ Close(probabilities[person].trait[e], FOne)
                  /\ probabilities[person].trait[~e] = FZero
                  /\ Len(people) = 1 => probabilities[person].trait[e] = FOne

C3_Witness ==
    /\ pc = "done"
    /\ Len(people) = 3 /\ HasChild
    /\ \E person \in People : people[person].trait = "True"
    /\ \E person \in People : people[person].trait = "False"
    /\ \E person \in People : ~Known(person)

NoEvidence == \A person \in People : ~Known(person)

\* C4 (as stated): with no known trait the joint probabilities of all the
\* hypotheses main enumerates sum to 1.
C4_TotalIsOne ==
    (pc \in {"normalize", "done"} /\ NoEvidence) => total = FOne

\* C4 (amended): with no known trait the joint probabilities of all the
\* hypotheses main enumerates sum to 1 within 1e-9.
C4_TotalNearOne ==
    (pc \in {"normalize", "done"} /\ NoEvidence) => Close(total, FOne)

C4_Witness ==
    /\ pc = "done" /\ NoEvidence
    /\ Len(people) = 3 /\ HasChild
    /\ Len(Updates) = 2^3 * 3^3
    /\ total # FOne

\* C8: evidence always leaves at least one candidate have_trait, so when
\* normalize is reached every person's gene total and trait total is
\* positive and normalize never divides by zero.
C8_NoZeroDivision ==
    /\ pc # "ZeroDivisionError"
    /\ pc = "normalize" =>
          /\ \E s \in SUBSET People : Consistent(s)
          /\ \A person \in People :
                FCmp(GeneSum(person), FZero) > 0 /\ FCmp(TraitSum(person), FZero) > 0

C8_Witness ==
    /\ pc = "normalize"
    /\ Len(people) = 3 /\ HasChild
    /\ \A person \in People : Known(person)
    /\ Len(Updates) = 3^3

Unknown == {person \in People : ~Known(person)}

Enumerated ==
    {h \in [have_trait : SUBSET People, one_gene : SUBSET People, two_genes : SUBSET People] :
        Consistent(h.have_trait) /\ h.one_gene \cap h.two_genes = {}}

\* C9: main calls update exactly once for every have_trait that agrees with
\* the evidence combined with every assignment of 0, 1 or 2 copies to the
\* people, 2^k * 3^n calls for k people of unknown trait among n, and never
\* for anything else; normalize is called exactly once, after all of them.
C9_Enumeration ==
    /\ (pc \in {"trait", "gene", "normalize"} /\ calls # <<>>)
          => calls[Len(calls)].op = "update"
    /\ pc \in {"normalize", "done"} =>
          /\ Len(Updates) = 2^Cardinality(Unknown) * 3^Len(people)
          /\ {[have_trait |-> Updates[k].have_trait, one_gene |-> Updates[k].one_gene,
               two_genes |-> Updates[k].two_genes] : k \in 1..Len(Updates)} = Enumerated
    /\ pc = "done" =>
          /\ Len(calls) = Len(Updates) + 1
          /\ calls[Len(calls)].op = "normalize"

C9_Witness ==
    /\ pc = "done"
    /\ Len(people) = 3 /\ HasChild
    /\ Cardinality(Unknown) = 2
    /\ Len(calls) = 2^2 * 3^3 + 1

(***************************************************************************)
(* Claims about update                                                     *)
(***************************************************************************)
\* the sum, in call order, of the p of the calls hypothesising g copies for the person
RECURSIVE AddedGene(_, _, _, _)
AddedGene(cs, k, person, g) ==
    IF k = 0 THEN FZero
    ELSE IF GeneCount(person, cs[k]) = g
         THEN FAdd(AddedGene(cs, k - 1, person, g), cs[k].p)
         ELSE AddedGene(cs, k - 1, person, g)

\* the sum, in call order, of the p of the calls hypothesising trait t for the person
RECURSIVE AddedTrait(_, _, _, _)
AddedTrait(cs, k, person, t) ==
    IF k = 0 THEN FZero
    ELSE IF (person \in cs[k].have_trait) = t
         THEN FAdd(AddedTrait(cs, k - 1, person, t), cs[k].p)
         ELSE AddedTrait(cs, k - 1, person, t)

\* every bucket holds what the calls that name it have added, nothing else
OneBucketEach ==
    \A person \in People :
        /\ \A g \in 0..2 :
              probabilities[person].gene[g] = AddedGene(calls, Len(calls), person, g)
        /\ \A t \in BOOLEAN :
              probabilities[person].trait[t] = AddedTrait(calls, Len(calls), person, t)

RECURSIVE Replay(_, _, _)
Replay(cs, perm, k) ==
    IF k = 0 THEN ZeroTables(people)
    ELSE LET c == cs[perm[k]]
         IN  update(Replay(cs, perm, k - 1), c.one_gene, c.two_genes, c.have_trait, c.p)

Reorderings == {f \in [1..Len(calls) -> 1..Len(calls)] : \A i, j \in 1..Len(calls) :
                   f[i] = f[j] => i = j}

TablesClose(x, y) ==
    \A person \in People :
        /\ \A g \in 0..2 : Close(x[person].gene[g], y[person].gene[g])
        /\ \A t \in BOOLEAN : Close(x[person].trait[t], y[person].trait[t])

\* C10 (as stated): every call of update adds p to exactly one gene bucket
\* and one trait bucket of each person and changes nothing else, so that
\* after any calls each person's gene buckets, and trait buckets, sum to
\* the total of the p values, and the order of the calls does not matter.
C10_UpdateExact ==
    /\ OneBucketEach
    /\ \A person \in People : GeneSum(person) = total /\ TraitSum(person) = total
    /\ \A perm \in Reorderings : Replay(calls, perm, Len(calls)) = probabilities

\* C10 (amended): every call of update adds p to exactly one gene bucket
\* and one trait bucket of each person and changes nothing else; after any
\* calls each person's gene buckets, and trait buckets, sum to the total of
\* the p values within 1e-9, and another order of the calls gives every
\* bucket within 1e-9 of the same value.
C10_UpdateNear ==
    /\ OneBucketEach
    /\ \A person \in People :
          Close(GeneSum(person), total) /\ Close(TraitSum(person), total)
    /\ \A perm \in Reorderings :
          TablesClose(Replay(calls, perm, Len(calls)), probabilities)

C10_Witness ==
    /\ Len(calls) = 3
    /\ \E j, k \in 1..3 : /\ calls[j].p # calls[k].p
                          /\ calls[j].two_genes = {1} /\ calls[j].one_gene = {}
                          /\ calls[k].one_gene = {1} /\ calls[k].two_genes = {1}
    /\ \E perm \in Reorderings : Replay(calls, perm, 3) # probabilities

=============================================================================
